---- MODULE Spec2Model ----
(***************************************************************************)
(* Rectangle narrow-phase collision kernel of the pygame physics module    *)
(* (src/src/pgShapeObject.c).                                              *)
(*                                                                         *)
(* Numbers.  The C code works on doubles.  The model works on an integer   *)
(* grid: one grid unit is half a length unit, so a 1x1 rectangle has       *)
(* width 2 and corners at (+-1, +-1).  Angles are counted in quarter       *)
(* turns, for which rotation is exact on the grid.  Rectangle edges are    *)
(* parallel to an axis of every body frame, or, for a square built with an *)
(* intrinsic rotation of 45 degrees, diagonal to the axes; in both cases   *)
(* every clipped point lies on the grid.  Two grid values are "near equal" *)
(* exactly when they are equal.                                            *)
(*                                                                         *)
(* A k-factor is a rational; it is kept as <<numerator, denominator>>      *)
(* over the denominator m_ref * m_inc * I_ref * I_inc.                     *)
(***************************************************************************)
EXTENDS Integers, Sequences, FiniteSets, TLC

VARIABLES
    bodies,      \* the two PyBodyObjects: position, rotation, mass, shape
    contactList, \* the caller's Python list of PyContact records
    accs,        \* heap: the PyVector2 accumulators malloc'ed so far
    cells,       \* heap: the PyVector2* cells malloc'ed so far (ppAccMoment)
    calls,       \* one record per PyShapeObject_Collision call made so far
    moves,       \* number of translations of the pair made so far
    cfMiddle     \* build: enum order of the two middle CollisionFace values

vars == <<bodies, contactList, accs, cells, calls, moves, cfMiddle>>

----------------------------------------------------------------------------
(* Bounds of the model *)

\* largest |coordinate| of body B's initial position
MaxPos == 3
\* rectangle widths and heights are 2 (small) or 2 * MaxHalf (large) grid units
MaxHalf == 2
\* number of PyShapeObject_Collision calls in one behaviour
MaxCalls == 2
\* number of translations of the pair in one behaviour
MaxMoves == 1

MAX_CONTACTS == 16

----------------------------------------------------------------------------
(* Vector and scalar primitives (pgVector2, pgHelpFunctions) *)

Abs(x) == IF x < 0 THEN -x ELSE x

c_sum(a, b) == <<a[1] + b[1], a[2] + b[2]>>

c_diff(a, b) == <<a[1] - b[1], a[2] - b[2]>>

PyVector2_Dot(a, b) == a[1] * b[1] + a[2] * b[2]

\* 2D cross product of two vectors: the z component
PyVector2_Cross(a, b) == a[1] * b[2] - a[2] * b[1]

\* cross product of the scalar z-vector f with the planar vector a
PyVector2_fCross(f, a) == <<-f * a[2], f * a[1]>>

\* rotation by q quarter turns, counter-clockwise
PyVector2_Rotate(v, q) ==
    LET r == ((q % 4) + 4) % 4
    IN  CASE r = 0 -> v
          [] r = 1 -> <<-v[2], v[1]>>
          [] r = 2 -> <<-v[1], -v[2]>>
          [] r = 3 -> <<v[2], -v[1]>>

\* tolerance comparison of two doubles; grid values differ by 0 or by >= 1
PyMath_IsNearEqual(a, b) == Abs(a - b) < 1

PyVector2_Equal(a, b) ==
    PyMath_IsNearEqual(a[1], b[1]) /\ PyMath_IsNearEqual(a[2], b[2])

RECURSIVE SumSeq(_)
SumSeq(s) == IF s = <<>> THEN 0 ELSE Head(s) + SumSeq(Tail(s))

----------------------------------------------------------------------------
(* Body and AABB helpers (pgBodyObject, pgAABBBox) *)

PyBodyObject_GetGlobalPos(body, p) ==
    c_sum(PyVector2_Rotate(p, body.fRotation), body.vecPosition)

\* a point of source's local frame expressed in target's local frame
PyBodyObject_GetRelativePos(target, source, p) ==
    PyVector2_Rotate(c_diff(PyBodyObject_GetGlobalPos(source, p), target.vecPosition),
                     -target.fRotation)

AABB_Gen(l, r, b, t) == [left |-> l, right |-> r, bottom |-> b, top |-> t]

\* the point lies inside the box widened by eps
AABB_IsIn(p, box, eps) ==
    /\ box.left - eps < p[1] /\ p[1] < box.right + eps
    /\ box.bottom - eps < p[2] /\ p[2] < box.top + eps

----------------------------------------------------------------------------
(* Liang-Barsky clipping of the directed segment p1 -> p2 against a box    *)
(* (pgCollision).  A parameter u is the fraction <<n, d>> with d > 0.      *)

FracLess(a, b) == a[1] * b[2] < b[1] * a[2]

\* p1 + u * dp, exact whenever the segment is parallel to an axis
PointAt(p1, dp, u) ==
    <<p1[1] + ((dp[1] * u[1]) \div u[2]), p1[2] + ((dp[2] * u[1]) \div u[2])>>

LiangBarskey_Internal(p, q, u) ==
    IF ~u.ok THEN u
    ELSE IF p = 0 THEN (IF q < 0 THEN [u EXCEPT !.ok = FALSE] ELSE u)
    ELSE IF p < 0
         THEN IF FracLess(u.u2, <<-q, -p>>) THEN [u EXCEPT !.ok = FALSE]
              ELSE IF FracLess(u.u1, <<-q, -p>>) THEN [u EXCEPT !.u1 = <<-q, -p>>] ELSE u
         ELSE IF FracLess(<<q, p>>, u.u1) THEN [u EXCEPT !.ok = FALSE]
              ELSE IF FracLess(<<q, p>>, u.u2) THEN [u EXCEPT !.u2 = <<q, p>>] ELSE u

\* the clipped segment, from the parameter interval u the four tests leave
LiangBarskey_Result(p1, p2, dp, u) ==
    IF ~u.ok \/ FracLess(u.u2, u.u1)
    THEN [hit |-> FALSE, pf |-> p1, pt |-> p2]
    ELSE [hit |-> TRUE,
          pf |-> IF u.u1[1] = 0 THEN p1 ELSE PointAt(p1, dp, u.u1),
          pt |-> IF u.u2[1] = u.u2[2] THEN p2 ELSE PointAt(p1, dp, u.u2)]

\* the four tests: left, right, bottom, top
LiangBarskey_Tests(box, p1, dp) ==
    LiangBarskey_Internal(dp[2], box.top - p1[2],
      LiangBarskey_Internal(-dp[2], p1[2] - box.bottom,
        LiangBarskey_Internal(dp[1], box.right - p1[1],
          LiangBarskey_Internal(-dp[1], p1[1] - box.left,
            [ok |-> TRUE, u1 |-> <<0, 1>>, u2 |-> <<1, 1>>]))))

Collision_LiangBarskey(box, p1, p2) ==
    LiangBarskey_Result(p1, p2, c_diff(p2, p1),
                        LiangBarskey_Tests(box, p1, c_diff(p2, p1)))

----------------------------------------------------------------------------
(* Shapes *)

\* _ShapeNew: a plain physics.Shape, no native collision routine
ShapeNew ==
    [kind |-> "Shape", Collision |-> "NULL", rInertia |-> 0,
     bottomleft |-> <<0, 0>>, bottomright |-> <<0, 0>>,
     topright |-> <<0, 0>>, topleft |-> <<0, 0>>]

\* _RectShapeNew followed by _RectShape_InitInternal (width, height, seta)
PyRectShape_New(width, height, seta) ==
    [kind |-> "RectShape", Collision |-> "_RectShapeCollision", rInertia |-> 0,
     bottomleft  |-> PyVector2_Rotate(<<-(width \div 2), -(height \div 2)>>, seta),
     bottomright |-> PyVector2_Rotate(<<width \div 2, -(height \div 2)>>, seta),
     topright    |-> PyVector2_Rotate(<<width \div 2, height \div 2>>, seta),
     topleft     |-> PyVector2_Rotate(<<-(width \div 2), height \div 2>>, seta)]

\* _RectShape_InitInternal for width = height = r * sqrt(2) and seta = 45
\* degrees: the rotated corners lie on the axes at distance r (rounding aside)
PyRectShape_NewDiagonal(r) ==
    [kind |-> "RectShape", Collision |-> "_RectShapeCollision", rInertia |-> 0,
     bottomleft  |-> <<0, -r>>,
     bottomright |-> <<r, 0>>,
     topright    |-> <<0, r>>,
     topleft     |-> <<-r, 0>>]

\* the body object id carrying the shape, with the inertia given to the shape
Body(id, pos, rot, mass, inertia, shape) ==
    [id |-> id, vecPosition |-> pos, fRotation |-> rot, fMass |-> mass,
     shape |-> [shape EXCEPT !.rInertia = inertia]]

----------------------------------------------------------------------------
(* _ClipTest: clip the four directed edges of `points` against `box` *)

\* mutant: an endpoint that is the original vertex is appended at once
\* instead of being flagged in has_ip
ClipEdgeHit_NoFlags(points, st, from, to, pf, pt) ==
    [apart |-> 0, has_ip |-> st.has_ip, contacts |-> st.contacts \o <<pf, pt>>]

\* the body of the loop for an edge that overlaps the box: from is the
\* index (from 1) of the edge's start vertex, to of its end vertex
ClipEdgeHit(points, st, from, to, pf, pt) ==
    [apart |-> 0,
     has_ip |-> [v \in 1..4 |->
                   IF \/ v = from /\ PyVector2_Equal(pf, points[from])
                      \/ v = to /\ PyVector2_Equal(pt, points[to])
                   THEN 1 ELSE st.has_ip[v]],
     contacts |-> st.contacts
                    \o (IF PyVector2_Equal(pf, points[from]) THEN <<>> ELSE <<pf>>)
                    \o (IF PyVector2_Equal(pt, points[to]) THEN <<>> ELSE <<pt>>)]

ClipEdgeResult(points, st, i, lb) ==
    IF lb.hit THEN ClipEdgeHit(points, st, i + 1, ((i + 1) % 4) + 1, lb.pf, lb.pt) ELSE st

\* one iteration of the loop over the edges; i is the C index 0..3
ClipEdge(box, points, st, i) ==
    ClipEdgeResult(points, st, i,
                   Collision_LiangBarskey(box, points[i + 1], points[((i + 1) % 4) + 1]))

\* the vertices whose has_ip flag is set, in index order
KeptVertices(points, has_ip) ==
    LET Pick(i) == IF has_ip[i] = 1 THEN <<points[i]>> ELSE <<>>
    IN  Pick(1) \o Pick(2) \o Pick(3) \o Pick(4)

\* mutant: the early return on apart is missing
ClipApart_Never(st) == FALSE

\* if(apart) return 0
ClipApart(st) == st.apart = 1

\* the end of _ClipTest, from the loop's final state
ClipTestReturn(points, st) ==
    IF ClipApart(st)
    THEN [ret |-> 0, contacts |-> st.contacts, has_ip |-> st.has_ip]
    ELSE [ret |-> 1, contacts |-> st.contacts \o KeptVertices(points, st.has_ip),
          has_ip |-> st.has_ip]

\* mutant: candi->contact_size is not reset, the buffer starts with the
\* MAX_CONTACTS entries a stale count stands for
ClipTestStart_NoReset ==
    [apart |-> 1, has_ip |-> <<0, 0, 0, 0>>,
     contacts |-> [i \in 1..MAX_CONTACTS |-> <<0, 0>>]]

\* the state before the loop: has_ip cleared, apart = 1, contact_size = 0
ClipTestStart ==
    [apart |-> 1, has_ip |-> <<0, 0, 0, 0>>, contacts |-> <<>>]

ClipTest(box, points) ==
    ClipTestReturn(points,
      ClipEdge(box, points,
        ClipEdge(box, points,
          ClipEdge(box, points,
            ClipEdge(box, points, ClipTestStart, 0), 1), 2), 3))

----------------------------------------------------------------------------
(* _SATFindCollisionProperty *)

\* the CollisionFace enum in the order of its values CF_LEFT .. CF_TOP
FaceOrder == <<"CF_LEFT">> \o cfMiddle \o <<"CF_TOP">>

Faces == {"CF_LEFT", "CF_RIGHT", "CF_BOTTOM", "CF_TOP"}

\* the distance of one contact to one face of the box
FaceDist(f, c, box) ==
    CASE f = "CF_LEFT"   -> Abs(c[1] - box.left)
      [] f = "CF_RIGHT"  -> Abs(box.right - c[1])
      [] f = "CF_BOTTOM" -> Abs(c[2] - box.bottom)
      [] f = "CF_TOP"    -> Abs(box.top - c[2])

\* deps[]: per face, the sum over the contacts of the distance to the face
FaceDeps(conts, box) ==
    [f \in Faces |-> SumSeq([i \in 1..Len(conts) |-> FaceDist(f, conts[i], box)])]

\* mutant: the comparison of the loop over the faces is reversed
MinFaceStep_Reversed(st, f, deps) ==
    IF st.unset \/ st.min_dep < deps[f]
    THEN [unset |-> FALSE, face_id |-> f, min_dep |-> deps[f]]
    ELSE st

\* one iteration of the loop over the faces; unset stands for DBL_MAX
MinFaceStep(st, f, deps) ==
    IF st.unset \/ st.min_dep > deps[f]
    THEN [unset |-> FALSE, face_id |-> f, min_dep |-> deps[f]]
    ELSE st

MinFace(deps) ==
    LET s0 == [unset |-> TRUE, face_id |-> "uninitialized", min_dep |-> 0]
        s1 == MinFaceStep(s0, FaceOrder[1], deps)
        s2 == MinFaceStep(s1, FaceOrder[2], deps)
        s3 == MinFaceStep(s2, FaceOrder[3], deps)
    IN  MinFaceStep(s3, FaceOrder[4], deps)

\* mutant: the comparison is <= instead of <
ChooseReference_Le(min_dep) == IF min_dep[1] <= min_dep[2] THEN 1 ELSE 2

\* k = min_dep[0] < min_dep[1] ? 0 : 1, as the model's index 1 or 2
ChooseReference(min_dep) == IF min_dep[1] < min_dep[2] THEN 1 ELSE 2

FaceNormal(f) ==
    CASE f = "CF_LEFT"   -> <<-1, 0>>
      [] f = "CF_RIGHT"  -> <<1, 0>>
      [] f = "CF_BOTTOM" -> <<0, -1>>
      [] f = "CF_TOP"    -> <<0, 1>>

\* mutant: the bottom and top arms of the switch compare .real, as the left
\* and right arms do
OnFace_RealOnly(f, c, box) ==
    CASE f = "CF_LEFT"   -> PyMath_IsNearEqual(c[1], box.left)
      [] f = "CF_RIGHT"  -> PyMath_IsNearEqual(c[1], box.right)
      [] f = "CF_BOTTOM" -> PyMath_IsNearEqual(c[1], box.bottom)
      [] f = "CF_TOP"    -> PyMath_IsNearEqual(c[1], box.top)

\* whether the contact lies on the face (the switch's IsNearEqual tests)
OnFace(f, c, box) ==
    CASE f = "CF_LEFT"   -> PyMath_IsNearEqual(c[1], box.left)
      [] f = "CF_RIGHT"  -> PyMath_IsNearEqual(c[1], box.right)
      [] f = "CF_BOTTOM" -> PyMath_IsNearEqual(c[2], box.bottom)
      [] f = "CF_TOP"    -> PyMath_IsNearEqual(c[2], box.top)

\* mutant: the contacts on the collision face are not deleted
FilterContacts_KeepAll(f, conts, box) == conts

\* delete the contacts on the collision face, keeping the order
FilterContacts(f, conts, box) ==
    SelectSeq(conts, LAMBDA c : ~OnFace(f, c, box))

\* mutant: the contact is rotated but the body position is not added
ContactToGlobal_NoTranslation(c, ref) == PyVector2_Rotate(c, ref.fRotation)

\* a contact of the reference body's frame in the global frame
ContactToGlobal(c, ref) ==
    c_sum(PyVector2_Rotate(c, ref.fRotation), ref.vecPosition)

\* the precomputed k-factor of a global contact, as <<numerator, denominator>>
KFactor(c, normal, ref, inc) ==
    LET refR   == c_diff(c, ref.vecPosition)
        incidR == c_diff(c, inc.vecPosition)
        t1 == PyVector2_Dot(PyVector2_fCross(PyVector2_Cross(refR, normal), refR), normal)
        t2 == PyVector2_Dot(PyVector2_fCross(PyVector2_Cross(incidR, normal), incidR), normal)
        mr == ref.fMass
        mi == inc.fMass
        Ir == ref.shape.rInertia
        Ii == inc.shape.rInertia
    IN  <<mi * Ir * Ii + mr * Ir * Ii + t1 * mr * mi * Ii + t2 * mr * mi * Ir,
          mr * mi * Ir * Ii>>

\* the end of the function: normal and kept contacts go to the global
\* frame, the k-factors are computed, ans_ref and ans_inc are assigned
SATGlobal(ref, inc, k, m, conts, kept, world, normal) ==
    [normal |-> normal,
     contacts |-> world,
     kFactors |-> [i \in 1..Len(world) |-> KFactor(world[i], normal, ref, inc)],
     min_depth |-> m[k].min_dep,
     ans_ref |-> ref.id,
     ans_inc |-> inc.id,
     k |-> k, min_dep |-> <<m[1].min_dep, m[2].min_dep>>,
     face_id |-> <<m[1].face_id, m[2].face_id>>,
     conts |-> conts, kept |-> kept]

\* the switch on face_id[k]: the normal and the contacts off the face
SATFilter(ref, inc, k, m, conts, kept) ==
    SATGlobal(ref, inc, k, m, conts, kept,
              [i \in 1..Len(kept) |-> ContactToGlobal(kept[i], ref)],
              PyVector2_Rotate(FaceNormal(m[k].face_id), ref.fRotation))

\* self[], inc[] and box[] indexed by the chosen k
SATSelect(self, inc, box, k, m, conts) ==
    SATFilter(self[k], inc[k], k, m, conts, FilterContacts(m[k].face_id, conts[k], box[k]))

\* m[k] holds face_id[k] and min_dep[k]; the reference body is chosen
SATChoose(self, inc, box, m, conts) ==
    SATSelect(self, inc, box, ChooseReference(<<m[1].min_dep, m[2].min_dep>>), m, conts)

\* the loop over k: the minimal face of each body
SATDepths(self, inc, box, conts) ==
    SATChoose(self, inc, box,
              <<MinFace(FaceDeps(conts[1], box[1])), MinFace(FaceDeps(conts[2], box[2]))>>,
              conts)

SATFindCollisionProperty(selfBody, incBody, selfBox, incBox, contacts) ==
    SATDepths(<<selfBody, incBody>>, <<incBody, selfBody>>, <<selfBox, incBox>>,
              <<contacts,
                [i \in 1..Len(contacts) |->
                    PyBodyObject_GetRelativePos(incBody, selfBody, contacts[i])]>>)

----------------------------------------------------------------------------
(* _RectShapeCollision *)

\* the four corners in the order bottomleft, bottomright, topright, topleft
Corners(rect) == <<rect.bottomleft, rect.bottomright, rect.topright, rect.topleft>>

\* the corners of selfBody's rectangle that lie inside the incident box
SelfCornersInside(self, p_in_inc, box_inc) ==
    LET Pick(i) == IF AABB_IsIn(p_in_inc[i], box_inc, 0) THEN <<Corners(self)[i]>> ELSE <<>>
    IN  Pick(1) \o Pick(2) \o Pick(3) \o Pick(4)

\* PyContact_New (ans_ref, ans_inc): an empty contact between the two bodies
PyContact_New(ref, inc) ==
    [body1 |-> ref, body2 |-> inc, pos |-> <<0, 0>>, normal |-> <<0, 0>>,
     ppAccMoment |-> 0, ppSplitAccMoment |-> 0,
     weight |-> 0, depth |-> 0, kFactor |-> <<0, 1>>]

\* mutant: the weight is the size before the contacts on the face are deleted
NewContact_PreFilterWeight(candi, i, pAcc, pSplitAcc, nCells) ==
    [PyContact_New(candi.ans_ref, candi.ans_inc) EXCEPT
        !.pos = candi.contacts[i],
        !.normal = candi.normal,
        !.ppAccMoment = nCells + 2 * i - 1,
        !.ppSplitAccMoment = nCells + 2 * i,
        !.weight = Len(candi.conts[1]),
        !.depth = candi.min_depth,
        !.kFactor = candi.kFactors[i]]

\* the contact built by iteration i (from 1) of the emission loop; pAcc and
\* pSplitAcc are heap addresses in accs, nCells the cells allocated before
NewContact(candi, i, pAcc, pSplitAcc, nCells) ==
    [PyContact_New(candi.ans_ref, candi.ans_inc) EXCEPT
        !.pos = candi.contacts[i],
        !.normal = candi.normal,
        !.ppAccMoment = nCells + 2 * i - 1,
        !.ppSplitAccMoment = nCells + 2 * i,
        !.weight = Len(candi.contacts),
        !.depth = candi.min_depth,
        !.kFactor = candi.kFactors[i]]

\* the pointer cells malloc'ed by the emission loop, in allocation order
NewCells(n, pAcc, pSplitAcc) ==
    [c \in 1..(2 * n) |-> IF c % 2 = 1 THEN pAcc ELSE pSplitAcc]

\* what the kernel records nothing about when it does not get that far
NoCandidate ==
    [normal |-> <<0, 0>>, contacts |-> <<>>, kFactors |-> <<>>, min_depth |-> 0,
     ans_ref |-> 0, ans_inc |-> 0, k |-> 0, min_dep |-> <<0, 0>>,
     face_id |-> <<"none", "none">>, conts |-> <<<<>>, <<>>>>, kept |-> <<>>]

\* the end of the kernel: the accumulators and the emission loop
KernelEmit(list, heapAccs, heapCells, geo, clip, cand, candi) ==
    [ret |-> 1,
     list |-> list \o [i \in 1..Len(candi.contacts) |->
                          NewContact(candi, i, Len(heapAccs) + 1, Len(heapAccs) + 2,
                                     Len(heapCells))],
     accs |-> heapAccs \o <<<<0, 0>>, <<0, 0>>>>,
     cells |-> heapCells \o NewCells(Len(candi.contacts), Len(heapAccs) + 1,
                                      Len(heapAccs) + 2),
     box_self |-> geo.box_self, box_inc |-> geo.box_inc,
     p_in_self |-> geo.p_in_self, p_in_inc |-> geo.p_in_inc,
     clip |-> clip.contacts, cand |-> cand, candi |-> candi]

\* the corners of selfBody inside the incident box are added, then the
\* collision property is found
KernelCandidate(selfBody, incidBody, list, heapAccs, heapCells, geo, clip, cand) ==
    KernelEmit(list, heapAccs, heapCells, geo, clip, cand,
               SATFindCollisionProperty(selfBody, incidBody, geo.box_self, geo.box_inc, cand))

\* if(!_ClipTest(&box_self, p_in_self, &candi)) return 0
KernelClip(selfBody, incidBody, self, list, heapAccs, heapCells, geo, clip) ==
    IF clip.ret = 0
    THEN [ret |-> 0, list |-> list, accs |-> heapAccs, cells |-> heapCells,
          box_self |-> geo.box_self, box_inc |-> geo.box_inc,
          p_in_self |-> geo.p_in_self, p_in_inc |-> geo.p_in_inc,
          clip |-> clip.contacts, cand |-> <<>>, candi |-> NoCandidate]
    ELSE KernelCandidate(selfBody, incidBody, list, heapAccs, heapCells, geo, clip,
           clip.contacts \o SelfCornersInside(self, geo.p_in_inc, geo.box_inc))

\* the corners of each body in the other's frame, and the two local boxes
KernelGeometry(selfBody, incidBody, self, inc) ==
    [p_in_self |-> [i \in 1..4 |->
                      PyBodyObject_GetRelativePos(selfBody, incidBody, Corners(inc)[i])],
     p_in_inc  |-> [i \in 1..4 |->
                      PyBodyObject_GetRelativePos(incidBody, selfBody, Corners(self)[i])],
     box_self |-> AABB_Gen(self.bottomleft[1], self.topright[1],
                           self.bottomleft[2], self.topright[2]),
     box_inc  |-> AABB_Gen(inc.bottomleft[1], inc.topright[1],
                           inc.bottomleft[2], inc.topright[2])]

\* self and inc are the rectangle fields read through the two casts of
\* body->shape; list, heapAccs and heapCells the list and heap before the call

\* the clipping pass on the geometry of the pair
KernelClipTest(selfBody, incidBody, self, list, heapAccs, heapCells, geo) ==
    KernelClip(selfBody, incidBody, self, list, heapAccs, heapCells, geo,
               ClipTest(geo.box_self, geo.p_in_self))

RectShapeCollision(selfBody, incidBody, self, inc, list, heapAccs, heapCells) ==
    KernelClipTest(selfBody, incidBody, self, list, heapAccs, heapCells,
                   KernelGeometry(selfBody, incidBody, self, inc))

----------------------------------------------------------------------------
(* PyShapeObject_Collision, the shape dispatcher *)

RectFields(shape) ==
    [bottomleft |-> shape.bottomleft, bottomright |-> shape.bottomright,
     topright |-> shape.topright, topleft |-> shape.topleft]

\* what the bytes behind a plain PyShapeObject can hold when they are read
\* as the corner fields of a PyRectShapeObject
StrayFields ==
    {[bottomleft |-> <<0, 0>>, bottomright |-> <<0, 0>>,
      topright |-> <<0, 0>>, topleft |-> <<0, 0>>],
     [bottomleft |-> <<-1, -1>>, bottomright |-> <<1, -1>>,
      topright |-> <<1, 1>>, topleft |-> <<-1, 1>>]}

\* the values (PyRectShapeObject* )shape can yield for the corner fields
CastToRect(shape) ==
    IF shape.kind = "RectShape" THEN {RectFields(shape)} ELSE StrayFields

\* the log entry of one dispatcher call
CallRecord(i, j, native, ret, first, n, r) ==
    [self |-> i, inc |-> j,
     selfPos |-> bodies[i].vecPosition, incPos |-> bodies[j].vecPosition,
     selfKind |-> bodies[i].shape.kind, incKind |-> bodies[j].shape.kind,
     kernel |-> native, ret |-> ret, first |-> first, n |-> n,
     box_self |-> r.box_self, box_inc |-> r.box_inc,
     p_in_self |-> r.p_in_self, p_in_inc |-> r.p_in_inc,
     clip |-> r.clip, cand |-> r.cand, candi |-> r.candi]

NoKernel ==
    [box_self |-> AABB_Gen(0, 0, 0, 0), box_inc |-> AABB_Gen(0, 0, 0, 0),
     p_in_self |-> <<>>, p_in_inc |-> <<>>,
     clip |-> <<>>, cand |-> <<>>, candi |-> NoCandidate]

\* the shape has a C implementation: it is called with both bodies
CollisionNative(i, j) ==
    /\ Len(calls) < MaxCalls
    /\ bodies[i].shape.Collision = "_RectShapeCollision"
    /\ \E inc \in CastToRect(bodies[j].shape) :
          \E r \in {RectShapeCollision(bodies[i], bodies[j], RectFields(bodies[i].shape),
                                      inc, contactList, accs, cells)} :
              /\ contactList' = r.list
              /\ accs' = r.accs
              /\ cells' = r.cells
              /\ calls' = Append(calls, CallRecord(i, j, TRUE, r.ret, Len(contactList),
                                                   Len(r.list) - Len(contactList), r))
    /\ UNCHANGED <<bodies, moves, cfMiddle>>

\* no C implementation: the Python method _collision is looked up; neither
\* type defines it, the call fails and the dispatcher returns -1
CollisionFallback(i, j) ==
    /\ Len(calls) < MaxCalls
    /\ bodies[i].shape.Collision = "NULL"
    /\ calls' = Append(calls, CallRecord(i, j, FALSE, -1, Len(contactList), 0, NoKernel))
    /\ UNCHANGED <<bodies, contactList, accs, cells, moves, cfMiddle>>

----------------------------------------------------------------------------
(* The caller: a world of two bodies *)

Translations == {<<2000, 2000>>}

\* both bodies are moved by the same world vector, between two calls: the
\* world steps once after a call, the k-th move follows the k-th call
Translate(t) ==
    /\ moves < MaxMoves
    /\ Len(calls) = moves + 1 /\ Len(calls) < MaxCalls
    /\ moves' = moves + 1
    /\ bodies' = [b \in DOMAIN bodies |->
                    [bodies[b] EXCEPT !.vecPosition = c_sum(@, t)]]
    /\ UNCHANGED <<contactList, accs, cells, calls, cfMiddle>>

Positions == {<<x, y>> : x \in (-MaxPos)..MaxPos, y \in (-MaxPos)..MaxPos}

Widths == {2, 2 * MaxHalf}

QuarterTurns == 0..3

\* a rectangle A of height 2 and a rectangle B of width 2, body B in any
\* pose relative to body A
InitGeneric ==
    \E wa \in Widths, pb \in Positions, rb \in QuarterTurns, hb \in Widths :
        bodies = <<Body(1, <<0, 0>>, 0, 2, 3, PyRectShape_New(wa, 2, 0)),
                   Body(2, pb, rb, 1, 2, PyRectShape_New(2, hb, 0))>>

\* a 10x10 rectangle and a 1x1 rectangle
InitLargeSmall ==
    \E pb \in Positions :
        bodies = <<Body(1, <<0, 0>>, 0, 2, 3, PyRectShape_New(20, 20, 0)),
                   Body(2, pb, 0, 1, 2, PyRectShape_New(2, 2, 0))>>

\* rectangles built with an intrinsic rotation
InitRotatedShape ==
    \E sa \in QuarterTurns, sb \in QuarterTurns, x \in (-MaxPos)..MaxPos :
        /\ sa + sb > 0
        /\ bodies = <<Body(1, <<0, 0>>, 1, 2, 3, PyRectShape_New(4, 2, sa)),
                      Body(2, <<x, 1>>, 0, 1, 2, PyRectShape_New(4, 2, sb))>>

\* a 3x3 square and a square built with an intrinsic rotation of 45 degrees
InitDiagonalShape ==
    \E x \in (-1)..1, y \in 0..1 :
        bodies = <<Body(1, <<0, 0>>, 0, 2, 3, PyRectShape_New(6, 6, 0)),
                   Body(2, <<x, y>>, 0, 1, 2, PyRectShape_NewDiagonal(4))>>

\* a body may carry a plain Shape
InitPlainShape ==
    \E sh \in {<<ShapeNew, PyRectShape_New(2, 2, 0)>>,
               <<PyRectShape_New(2, 2, 0), ShapeNew>>,
               <<ShapeNew, ShapeNew>>},
       pb \in {<<0, 0>>, <<1, 0>>, <<3, 0>>} :
        bodies = <<Body(1, <<0, 0>>, 0, 2, 3, sh[1]), Body(2, pb, 0, 1, 2, sh[2])>>

Init ==
    /\ InitGeneric \/ InitLargeSmall \/ InitRotatedShape \/ InitDiagonalShape
       \/ InitPlainShape
    /\ contactList = <<>>
    /\ accs = <<>>
    /\ cells = <<>>
    /\ calls = <<>>
    /\ moves = 0
    /\ cfMiddle \in {<<"CF_RIGHT", "CF_BOTTOM">>, <<"CF_BOTTOM", "CF_RIGHT">>}

Next ==
    \/ \E i \in 1..2, j \in 1..2 : i # j /\ CollisionNative(i, j)
    \/ \E i \in 1..2, j \in 1..2 : i # j /\ CollisionFallback(i, j)
    \/ \E t \in Translations : Translate(t)

Spec == Init /\ [][Next]_vars

\* the collision calls alone, on a pair that is not moved between them
NextKernel ==
    \E i \in 1..2, j \in 1..2 : i # j /\ CollisionNative(i, j)

SpecKernel == Init /\ [][NextKernel]_vars

----------------------------------------------------------------------------
(* Properties *)

Last(q) == q[Len(q)]

\* the contacts a logged call appended to the list
Emitted(c) == SubSeq(contactList, c.first + 1, c.first + c.n)

\* the logged calls that entered the kernel with two rectangle bodies
RectCalls ==
    {c \in {calls[x] : x \in DOMAIN calls} :
        c.kernel /\ c.selfKind = "RectShape" /\ c.incKind = "RectShape"}

\* C1: the kernel returns true if and only if the call appended at least one
\* contact to the list; in particular never true with every candidate
\* filtered away.
C1_TrueIffContactEmitted ==
    \A c \in RectCalls : (c.ret = 1) <=> (c.n >= 1)

\* C2: for two rectangle bodies in one pose, collide(A,B) and collide(B,A)
\* return the same boolean.
C2_SymmetricResult ==
    \A c \in RectCalls, d \in RectCalls :
        (c.self = d.inc /\ c.inc = d.self /\ c.selfPos = d.incPos /\ c.incPos = d.selfPos)
            => c.ret = d.ret

\* no directed edge of the four points overlaps the box
NoEdgeOverlaps(box, points) ==
    \A i \in 1..4 : ~Collision_LiangBarskey(box, points[i], points[(i % 4) + 1]).hit

TiedCalls ==
    {c \in {calls[x] : x \in DOMAIN calls} :
        c.kernel /\ c.ret = 1 /\ c.candi.min_dep[1] = c.candi.min_dep[2]}

\* C4 as claimed: on min_dep[0] = min_dep[1] the first argument (selfBody)
\* is the reference body and the second the incident body.
C4_TiePicksSelf ==
    \A c \in TiedCalls : c.candi.ans_ref = c.self /\ c.candi.ans_inc = c.inc

\* C4 amended: on min_dep[0] = min_dep[1] the second argument (incBody) is
\* the reference body and the first argument the incident body.
C4_TiePicksIncident ==
    \A c \in TiedCalls : c.candi.ans_ref = c.inc /\ c.candi.ans_inc = c.self

C4_Witness ==
    \E c \in TiedCalls : c.incKind = "RectShape" /\ c.n >= 1

\* the world position, at the time of call c, of the body with the given id
PosAtCall(c, id) == IF id = c.self THEN c.selfPos ELSE c.incPos

\* C5: every emitted contact's normal points from the reference body toward
\* the incident body: (p_inc - p_ref) . n > 0.
C5_NormalTowardIncident ==
    \A c \in RectCalls : \A i \in 1..c.n :
        PyVector2_Dot(c_diff(PosAtCall(c, Emitted(c)[i].body2),
                             PosAtCall(c, Emitted(c)[i].body1)),
                      Emitted(c)[i].normal) > 0

\* C6: the n contacts one call appends all carry weight n, the depth
\* min_depth and the same normal, their handles resolve to one zeroed
\* accumulator and one zeroed split accumulator, and the contacts already in
\* the list are unchanged.
C6_ManifoldStamp ==
    [][(Len(calls') = Len(calls) + 1 /\ Last(calls').kernel) =>
         /\ Len(contactList') >= Len(contactList)
         /\ SubSeq(contactList', 1, Len(contactList)) = contactList
         /\ \A i \in (Len(contactList) + 1)..Len(contactList') :
              /\ contactList'[i].weight = Len(contactList') - Len(contactList)
              /\ contactList'[i].depth = Last(calls').candi.min_depth
              /\ contactList'[i].normal = contactList'[Len(contactList')].normal
              /\ contactList'[i].ppAccMoment \in DOMAIN cells'
              /\ contactList'[i].ppSplitAccMoment \in DOMAIN cells'
              /\ cells'[contactList'[i].ppAccMoment]
                    = cells'[contactList'[Len(contactList')].ppAccMoment]
              /\ cells'[contactList'[i].ppSplitAccMoment]
                    = cells'[contactList'[Len(contactList')].ppSplitAccMoment]
              /\ cells'[contactList'[i].ppAccMoment] \in DOMAIN accs' \ DOMAIN accs
              /\ cells'[contactList'[i].ppSplitAccMoment] \in DOMAIN accs' \ DOMAIN accs
              /\ accs'[cells'[contactList'[i].ppAccMoment]] = <<0, 0>>
              /\ accs'[cells'[contactList'[i].ppSplitAccMoment]] = <<0, 0>>]_vars

C6_Witness ==
    \E c \in RectCalls : c.first >= 1 /\ c.n >= 2 /\ c.n < Len(c.cand)

\* scenario 4: A 10x10 at (0,0), B 1x1 at (0,0), both unrotated, collide(A,B)
IsFullContainment(c) ==
    /\ c.self = 1 /\ c.selfPos = <<0, 0>> /\ c.incPos = <<0, 0>>
    /\ bodies[1].fRotation = 0 /\ bodies[2].fRotation = 0
    /\ RectFields(bodies[1].shape) = RectFields(PyRectShape_New(20, 20, 0))
    /\ RectFields(bodies[2].shape) = RectFields(PyRectShape_New(2, 2, 0))

\* the set of positions of the contacts call c appended
EmittedPositions(c) == {Emitted(c)[i].pos : i \in 1..c.n}

\* C7 as claimed: a collision is reported, the four corners of B are the
\* contacts and the reference body is A.
C7_FullContainment ==
    \A c \in RectCalls : IsFullContainment(c) =>
        /\ c.ret = 1 /\ c.n = 4
        /\ EmittedPositions(c) = {<<-1, -1>>, <<1, -1>>, <<1, 1>>, <<-1, 1>>}
        /\ c.candi.ans_ref = 1

\* C7 amended: a collision is reported, the reference body is B with its
\* left face as reference face (normal (-1,0)), and exactly the two corners
\* of B off that face, (0.5,-0.5) and (0.5,0.5), are emitted.
C7_FullContainmentAmended ==
    \A c \in RectCalls : IsFullContainment(c) =>
        /\ c.ret = 1 /\ c.n = 2
        /\ EmittedPositions(c) = {<<1, -1>>, <<1, 1>>}
        /\ c.candi.ans_ref = 2 /\ c.candi.ans_inc = 1
        /\ c.candi.face_id[2] = "CF_LEFT"
        /\ \A i \in 1..c.n : Emitted(c)[i].normal = <<-1, 0>>

C7_Witness ==
    \E c \in RectCalls : IsFullContainment(c)

\* scenario 1: A 1x1 at (0,0), B 1x1 at (0.5,0), both unrotated, collide(A,B)
IsUnitOverlap(c) ==
    /\ c.self = 1 /\ c.selfPos = <<0, 0>> /\ c.incPos = <<1, 0>>
    /\ bodies[1].fRotation = 0 /\ bodies[2].fRotation = 0
    /\ RectFields(bodies[1].shape) = RectFields(PyRectShape_New(2, 2, 0))
    /\ RectFields(bodies[2].shape) = RectFields(PyRectShape_New(2, 2, 0))

\* C8: a collision is reported with normal (+-1,0), exactly 2 contacts with
\* y = +0.5 and y = -0.5, and depth 0.5 (one grid unit) stamped on them.
C8_UnitOverlap ==
    \A c \in RectCalls : IsUnitOverlap(c) =>
        /\ c.ret = 1 /\ c.n = 2
        /\ {Emitted(c)[i].pos[2] : i \in 1..c.n} = {1, -1}
        /\ \A i \in 1..c.n :
              /\ Emitted(c)[i].normal \in {<<1, 0>>, <<-1, 0>>}
              /\ Emitted(c)[i].depth = 1

\* C9: the same call on the pair translated by a world vector t returns
\* the same boolean and emits as many contacts in the same order, with the
\* positions shifted by t, the same normal, depth, weight and k-factor, and
\* the same reference body.
C9_TranslationInvariant ==
    \A c \in RectCalls, d \in RectCalls :
        (c.self = d.self /\ c.inc = d.inc
            /\ c_diff(d.selfPos, c.selfPos) = c_diff(d.incPos, c.incPos)) =>
        /\ d.ret = c.ret /\ d.n = c.n
        /\ d.candi.ans_ref = c.candi.ans_ref
        /\ \A i \in 1..c.n :
              /\ Emitted(d)[i].pos = c_sum(Emitted(c)[i].pos, c_diff(d.selfPos, c.selfPos))
              /\ Emitted(d)[i].normal = Emitted(c)[i].normal
              /\ Emitted(d)[i].depth = Emitted(c)[i].depth
              /\ Emitted(d)[i].weight = Emitted(c)[i].weight
              /\ Emitted(d)[i].kFactor = Emitted(c)[i].kFactor
              /\ Emitted(d)[i].body1 = Emitted(c)[i].body1

C9_Witness ==
    \E c \in RectCalls, d \in RectCalls :
        /\ c.self = d.self /\ c.inc = d.inc
        /\ c.selfPos # d.selfPos /\ c.n >= 2 /\ bodies[c.candi.ans_ref].fRotation # 0

\* C10: the dispatcher enters the rectangle kernel only when both bodies
\* carry rectangle shapes.
C10_KernelOnlyForRectangles ==
    \A x \in DOMAIN calls :
        calls[x].kernel => calls[x].selfKind = "RectShape" /\ calls[x].incKind = "RectShape"

\* the logged calls in which the kernel went past the clipping pass
PastClip ==
    {c \in {calls[x] : x \in DOMAIN calls} : c.kernel /\ c.ret = 1}

\* C11: for every rectangle shape the constructor builds (any intrinsic
\* rotation, 90 and 180 degrees included), the boxes box_self and box_inc the
\* kernel builds from bottomleft and topright have left <= right and
\* bottom <= top.
C11_BoxesOrdered ==
    \A c \in RectCalls :
        /\ c.box_self.left <= c.box_self.right /\ c.box_self.bottom <= c.box_self.top
        /\ c.box_inc.left <= c.box_inc.right /\ c.box_inc.bottom <= c.box_inc.top

\* box[k] of call c: the box of the first argument (k = 1) or the second
BoxOf(c, k) == IF k = 1 THEN c.box_self ELSE c.box_inc

\* self[k] of call c: the body that owns box[k]
BodyOf(c, k) == IF k = 1 THEN c.self ELSE c.inc

\* the sum over the candidates, in body k's frame, of the absolute distance
\* to face f of body k
FaceSum(c, k, f) ==
    SumSeq([i \in 1..Len(c.candi.conts[k]) |->
               CASE f = "CF_LEFT"   -> Abs(c.candi.conts[k][i][1] - BoxOf(c, k).left)
                 [] f = "CF_RIGHT"  -> Abs(c.candi.conts[k][i][1] - BoxOf(c, k).right)
                 [] f = "CF_BOTTOM" -> Abs(c.candi.conts[k][i][2] - BoxOf(c, k).bottom)
                 [] f = "CF_TOP"    -> Abs(c.candi.conts[k][i][2] - BoxOf(c, k).top)])

\* the outward axis of a face in its body's frame
OutwardAxis(f) ==
    CASE f = "CF_LEFT" -> <<-1, 0>> [] f = "CF_RIGHT" -> <<1, 0>>
      [] f = "CF_BOTTOM" -> <<0, -1>> [] f = "CF_TOP" -> <<0, 1>>

AxisOf(f) == IF f \in {"CF_LEFT", "CF_RIGHT"} THEN 1 ELSE 2

\* the coordinate of a face of the box on its normal axis
FaceCoord(f, box) ==
    CASE f = "CF_LEFT" -> box.left [] f = "CF_RIGHT" -> box.right
      [] f = "CF_BOTTOM" -> box.bottom [] f = "CF_TOP" -> box.top

\* the contacts, in order, whose coordinate on the axis is not near-equal to
\* coord
RECURSIVE OffFace(_, _, _)
OffFace(conts, axis, coord) ==
    IF conts = <<>> THEN <<>>
    ELSE (IF PyMath_IsNearEqual(Head(conts)[axis], coord) THEN <<>> ELSE <<Head(conts)>>)
            \o OffFace(Tail(conts), axis, coord)

\* the chosen reference face of call c and the box it belongs to
ChosenFace(c) == c.candi.face_id[c.candi.k]

ChosenBox(c) == BoxOf(c, c.candi.k)

\* C13: after the filter the contacts are exactly the pre-filter candidates,
\* in the reference body's frame and in their original order, whose
\* coordinate on the normal axis is not near-equal to the chosen face's
\* coordinate; none of them lies on the chosen face, and contact_size after
\* the filter does not exceed contact_size before it.
C13_FilterKeepsOffFace ==
    \A c \in PastClip :
        /\ c.candi.kept = OffFace(c.candi.conts[c.candi.k], AxisOf(ChosenFace(c)),
                                  FaceCoord(ChosenFace(c), ChosenBox(c)))
        /\ \A i \in 1..Len(c.candi.kept) :
              ~PyMath_IsNearEqual(c.candi.kept[i][AxisOf(ChosenFace(c))],
                                  FaceCoord(ChosenFace(c), ChosenBox(c)))
        /\ Len(c.candi.contacts) = Len(c.candi.kept)
        /\ Len(c.candi.kept) <= Len(c.cand)

C13_Witness ==
    \E c \in PastClip :
        /\ c.incKind = "RectShape" /\ AxisOf(ChosenFace(c)) = 2
        /\ \E i, j, l \in 1..Len(c.cand) :
              /\ i < j /\ j < l
              /\ ~OnFace(ChosenFace(c), c.candi.conts[c.candi.k][i], ChosenBox(c))
              /\ OnFace(ChosenFace(c), c.candi.conts[c.candi.k][j], ChosenBox(c))
              /\ ~OnFace(ChosenFace(c), c.candi.conts[c.candi.k][l], ChosenBox(c))

\* the logged calls that entered the kernel
KernelCalls == {c \in {calls[x] : x \in DOMAIN calls} : c.kernel}

\* C14: at every point of a kernel call contact_size is within
\* 0..MAX_CONTACTS.  The clipping pass counts up from 0 to Len(clip), the
\* corners of selfBody inside the incident box take it from Len(clip) to
\* Len(cand), the filter counts up from 0 to Len(kept); conts[0], conts[1]
\* hold Len(cand) entries and kFactors as many as the filter kept.
C14_ContactSizeBounded ==
    \A c \in KernelCalls :
        /\ Len(c.clip) <= MAX_CONTACTS
        /\ Len(c.clip) <= Len(c.cand) /\ Len(c.cand) <= MAX_CONTACTS
        /\ Len(c.candi.conts[1]) <= MAX_CONTACTS /\ Len(c.candi.conts[2]) <= MAX_CONTACTS
        /\ Len(c.candi.kept) <= MAX_CONTACTS
        /\ Len(c.candi.contacts) <= MAX_CONTACTS
        /\ Len(c.candi.kFactors) <= MAX_CONTACTS

\* a call in which each of the three phases changes contact_size: the
\* clipping pass finds points, a corner of selfBody is added, the filter
\* deletes a candidate
C14_Witness ==
    \E c \in KernelCalls :
        /\ Len(c.clip) >= 3 /\ Len(c.cand) > Len(c.clip)
        /\ Len(c.candi.kept) >= 1 /\ Len(c.candi.kept) < Len(c.cand)

\* edge e (1..4) of the four points runs from vertex e to vertex EdgeEnd(e)
EdgeEnd(e) == (e % 4) + 1

\* the clippings of the four edges of call c against box_self, in edge order
ClippedEdges(c) ==
    <<Collision_LiangBarskey(c.box_self, c.p_in_self[1], c.p_in_self[2]),
      Collision_LiangBarskey(c.box_self, c.p_in_self[2], c.p_in_self[3]),
      Collision_LiangBarskey(c.box_self, c.p_in_self[3], c.p_in_self[4]),
      Collision_LiangBarskey(c.box_self, c.p_in_self[4], c.p_in_self[1])>>

\* the clipped endpoints of edge e that differ from the edge's own vertices,
\* start before end; cl is ClippedEdges(c)
NewEndpoints(c, cl, e) ==
    IF ~cl[e].hit THEN <<>>
    ELSE (IF PyVector2_Equal(cl[e].pf, c.p_in_self[e]) THEN <<>> ELSE <<cl[e].pf>>)
         \o (IF PyVector2_Equal(cl[e].pt, c.p_in_self[EdgeEnd(e)])
             THEN <<>> ELSE <<cl[e].pt>>)

\* vertex v is kept as the start or the end of clipped edge e
KeptBy(c, cl, v, e) ==
    /\ cl[e].hit
    /\ \/ v = e /\ PyVector2_Equal(cl[e].pf, c.p_in_self[v])
       \/ v = EdgeEnd(e) /\ PyVector2_Equal(cl[e].pt, c.p_in_self[v])

\* vertex v once if some clipped edge keeps it, otherwise nothing
KeptOnce(c, cl, v) ==
    IF \E e \in 1..4 : KeptBy(c, cl, v, e) THEN <<c.p_in_self[v]>> ELSE <<>>

====
